---- MODULE Spec2Model ----
(***************************************************************************)
(* The complifi program (programs/complifi/src/lib.rs, state.rs, error.rs) *)
(* as a state machine.  The state is the content of the program's          *)
(* accounts: the ComplianceState account, the CompliancePolicy account and *)
(* the KycAttestation accounts, one program-derived address per wallet     *)
(* key.  Every instruction is one action: the account validation that the  *)
(* #[derive(Accounts)] struct of the instruction prescribes, followed by   *)
(* the handler.  An instruction that returns an error or panics leaves     *)
(* every account as it was (the runtime discards the writes of a failed    *)
(* instruction) and emits no event.                                        *)
(*                                                                         *)
(* The timestamp field of KycAttestation is written by                     *)
(* create_kyc_attestation from the clock and read by no instruction; it is *)
(* not part of the model's state.                                          *)
(***************************************************************************)
EXTENDS Integers, Sequences, FiniteSets, TLC

VARIABLES state, policy, attestations, emitted, last

vars == <<state, policy, attestations, emitted, last>>

---------------------------------------------------------------------------
(* Bounds of the model *)

\* Number of successful verify_compliance calls explored in one behaviour.
MaxVerifications == 2

\* Number of successful record_violation calls explored in one behaviour.
MaxViolations == 1

\* set_policy is offered every threshold in 0..MaxScoreOffered by SpecPolicy.
MaxScoreOffered == 12

---------------------------------------------------------------------------
(* Values *)

\* Public keys: signers, wallets and the wallet argument all are Pubkeys.
Pubkeys == {"k1", "k2"}

\* Pubkey::default(), the content of a field of an account that no
\* instruction has written yet.
DefaultPubkey == "default"

\* Action labels offered to verify_compliance.
Strings == {"swap", "transfer"}

\* Reasons offered to record_violation.
Reasons == {"sanctions"}

\* Signers offered to initialize.  (The instructions treat all keys alike,
\* so the deployment owner is k1 without loss of generality.)
Deployers == {"k1"}

\* u8::MAX
U8Max == 255

U8 == 0..U8Max

\* Signers offered to create_kyc_attestation in Spec.  (Any signer may
\* issue; no instruction reads the authority field of an attestation.)
Issuers == {"k2"}

\* Jurisdiction codes offered to create_kyc_attestation in Spec.
\* (SpecEvaluation evaluates every code of a u8.)
Jurisdictions == {1}

\* Jurisdiction codes offered to create_kyc_attestation in SpecAttestation.
IssuedJurisdictions == {1, 80}

\* Thresholds offered to set_policy in Spec.
RiskScores == {1, 2, 11}

\* Thresholds of the policies evaluated in SpecEvaluation.
EvaluationScores == {1, 2}

\* [0; 10]
ZeroBitmap == [i \in 1..10 |-> 0]

\* Bitmap with the bit of jurisdiction j set (j < 80) and no other.
BitmapOf(j) == [ZeroBitmap EXCEPT ![(j \div 8) + 1] = 2 ^ (j % 8)]

\* Bitmaps offered to set_policy in Spec.
Bitmaps == {ZeroBitmap, BitmapOf(1)}

\* Bitmaps offered to set_policy in SpecPolicy.
PolicyBitmaps == {ZeroBitmap, BitmapOf(1), [i \in 1..10 |-> 255]}

\* Bitmaps of SpecEvaluation: none, all, one bit in the first and in the
\* last byte, and alternating bits.
WideBitmaps == {ZeroBitmap, [i \in 1..10 |-> 255], BitmapOf(1), BitmapOf(79),
                [i \in 1..10 |-> 85]}

(* u64 counters.  TLC's integers are 32 bits wide, so a u64 is kept as the *)
(* eight little-endian bytes of its account encoding.                      *)
U64Zero == [i \in 1..8 |-> 0]

U64Max == [i \in 1..8 |-> 255]

\* u64::MAX - 1
U64NearMax == [U64Max EXCEPT ![1] = 254]

\* The value of a u64 below 2^24.
U64Val(x) == x[1] + 256 * x[2] + 65536 * x[3]

RECURSIVE AddOneFrom(_, _)
\* x + 1 computed bytewise from byte i on, the carry entering at byte i.
AddOneFrom(x, i) ==
    IF i > 8 THEN x
    ELSE IF x[i] = 255 THEN AddOneFrom([x EXCEPT ![i] = 0], i + 1)
    ELSE [x EXCEPT ![i] = x[i] + 1]

\* u64::wrapping_add(1)
wrapping_add_1(x) == [some |-> TRUE, value |-> AddOneFrom(x, 1)]

\* u64::checked_add(1): None on overflow.
checked_add_1(x) ==
    IF x = U64Max THEN [some |-> FALSE, value |-> x]
    ELSE [some |-> TRUE, value |-> AddOneFrom(x, 1)]

RECURSIVE BitAnd(_, _)
\* a & b on unsigned integers.
BitAnd(a, b) ==
    IF a = 0 \/ b = 0 THEN 0
    ELSE (a % 2) * (b % 2) + 2 * BitAnd(a \div 2, b \div 2)

---------------------------------------------------------------------------
(* Accounts *)

\* An account that has not been created.
NoState == [initialized |-> FALSE, authority |-> DefaultPubkey,
            verification_count |-> U64Zero, violation_count |-> U64Zero]

NoPolicy == [initialized |-> FALSE, authority |-> DefaultPubkey,
             max_risk_score |-> 0, require_kyc |-> FALSE,
             allowed_jurisdictions |-> ZeroBitmap]

NoAttestation == [initialized |-> FALSE, wallet |-> DefaultPubkey,
                  is_verified |-> FALSE, authority |-> DefaultPubkey,
                  jurisdiction |-> 0]

\* The PDA with the wallet key missing from the seeds.
AttestationPda_constant(key) == "k1"

\* Find the KYC attestation PDA of a wallet key: seeds
\* [KYC_ATTESTATION_SEED, key].  The address is a function of the key, so
\* the account is named by the key.
AttestationPda(key) == key

---------------------------------------------------------------------------
(* Errors *)

Ok == "Ok"
KycNotVerified == "KycNotVerified"
RiskScoreTooHigh == "RiskScoreTooHigh"
RestrictedJurisdiction == "RestrictedJurisdiction"
Unauthorized == "Unauthorized"
InvalidPolicyParameters == "InvalidPolicyParameters"
AttestationVerificationFailed == "AttestationVerificationFailed"
OracleDataFetchFailed == "OracleDataFetchFailed"

CompliFiError == {KycNotVerified, RiskScoreTooHigh, RestrictedJurisdiction,
                  Unauthorized, InvalidPolicyParameters,
                  AttestationVerificationFailed, OracleDataFetchFailed}

\* Errors of the framework's account validation and of the runtime.
AccountNotInitialized == "AccountNotInitialized"
AccountAlreadyInUse == "AccountAlreadyInUse"
\* The panic of Option::unwrap on None: the program fails to complete.
ProgramPanicked == "ProgramPanicked"

---------------------------------------------------------------------------
(* Events *)

VerificationEvent(user, action, verified, risk_score) ==
    [name |-> "VerificationEvent", user |-> user, action |-> action,
     verified |-> verified, risk_score |-> risk_score]

ViolationEvent(user, reason) ==
    [name |-> "ViolationEvent", user |-> user, reason |-> reason]

KycAttestationEvent(wallet, is_verified, jurisdiction) ==
    [name |-> "KycAttestationEvent", wallet |-> wallet,
     is_verified |-> is_verified, jurisdiction |-> jurisdiction]

---------------------------------------------------------------------------
(* Handlers.  A handler maps the accounts and the arguments to the error   *)
(* it returns (Ok on success), the accounts it leaves and the events it    *)
(* emits.                                                                  *)

\* initialize
initialize(authority) ==
    [initialized |-> TRUE, authority |-> authority,
     verification_count |-> U64Zero, violation_count |-> U64Zero]

\* initialize_policy with every jurisdiction allowed by default.
initialize_policy_allows_all(authority) ==
    [initialized |-> TRUE, authority |-> authority,
     max_risk_score |-> 3, require_kyc |-> TRUE,
     allowed_jurisdictions |-> [i \in 1..10 |-> 255]]

\* initialize_policy
initialize_policy(authority) ==
    [initialized |-> TRUE, authority |-> authority,
     max_risk_score |-> 3, require_kyc |-> TRUE,
     allowed_jurisdictions |-> ZeroBitmap]

\* create_kyc_attestation: every field is overwritten.
create_kyc_attestation(authority, wallet, is_verified, jurisdiction) ==
    [initialized |-> TRUE, wallet |-> wallet, is_verified |-> is_verified,
     authority |-> authority, jurisdiction |-> jurisdiction]

\* The jurisdiction test with a code beyond the bitmap falling through.
JurisdictionAllowed_fallthrough(allowed_jurisdictions, jurisdiction) ==
    LET jurisdiction_idx == jurisdiction \div 8
        jurisdiction_bit == 2 ^ (jurisdiction % 8)
    IN  IF jurisdiction_idx < Len(allowed_jurisdictions)
        THEN BitAnd(allowed_jurisdictions[jurisdiction_idx + 1],
                    jurisdiction_bit) # 0
        ELSE TRUE

\* The jurisdiction test of verify_compliance.
JurisdictionAllowed(allowed_jurisdictions, jurisdiction) ==
    LET jurisdiction_idx == jurisdiction \div 8
        jurisdiction_bit == 2 ^ (jurisdiction % 8)
    IN  IF jurisdiction_idx < Len(allowed_jurisdictions)
        THEN BitAnd(allowed_jurisdictions[jurisdiction_idx + 1],
                    jurisdiction_bit) # 0
        ELSE FALSE

\* The KYC block without the test of is_verified.
KycCheck_skips_verified(pol, att, user) ==
    IF ~pol.require_kyc THEN Ok
    ELSE IF att.wallet # user THEN KycNotVerified
    ELSE IF ~JurisdictionAllowed(pol.allowed_jurisdictions, att.jurisdiction)
         THEN RestrictedJurisdiction
    ELSE Ok

\* The KYC block with the jurisdiction tested first.
KycCheck_jurisdiction_first(pol, att, user) ==
    IF ~pol.require_kyc THEN Ok
    ELSE IF ~JurisdictionAllowed(pol.allowed_jurisdictions, att.jurisdiction)
         THEN RestrictedJurisdiction
    ELSE IF att.wallet # user THEN KycNotVerified
    ELSE IF ~att.is_verified THEN KycNotVerified
    ELSE Ok

\* Step 1 of verify_compliance: the error of the KYC block, or Ok.
KycCheck(pol, att, user) ==
    IF ~pol.require_kyc THEN Ok
    ELSE IF att.wallet # user THEN KycNotVerified
    ELSE IF ~att.is_verified THEN KycNotVerified
    ELSE IF ~JurisdictionAllowed(pol.allowed_jurisdictions, att.jurisdiction)
         THEN RestrictedJurisdiction
    ELSE Ok

\* get_wallet_risk_score: the simulated oracle, Ok(2) for every wallet.
get_wallet_risk_score(user) == [err |-> Ok, value |-> 2]

\* The threshold test accepting every score.
RiskScoreAccepted_always(risk_score, max_risk_score) == TRUE

\* The threshold test of verify_compliance.
RiskScoreAccepted(risk_score, max_risk_score) == risk_score <= max_risk_score

\* verify_compliance with the counter incremented before the threshold test.
verify_compliance_counts_first(st, pol, att, user, action) ==
    LET kyc == KycCheck(pol, att, user)
        oracle == get_wallet_risk_score(user)
        sum == checked_add_1(st.verification_count)
        counted == [st EXCEPT !.verification_count = sum.value]
    IN  IF kyc # Ok THEN [err |-> kyc, state |-> st, events |-> <<>>]
        ELSE IF ~sum.some
             THEN [err |-> ProgramPanicked, state |-> st, events |-> <<>>]
        ELSE IF oracle.err # Ok
             THEN [err |-> oracle.err, state |-> counted, events |-> <<>>]
        ELSE IF ~RiskScoreAccepted(oracle.value, pol.max_risk_score)
             THEN [err |-> RiskScoreTooHigh, state |-> counted, events |-> <<>>]
        ELSE [err |-> Ok, state |-> counted,
              events |-> <<VerificationEvent(user, action, TRUE, oracle.value)>>]

\* verify_compliance with the threshold test skipped for one action label.
verify_compliance_by_action(st, pol, att, user, action) ==
    LET kyc == KycCheck(pol, att, user)
        oracle == get_wallet_risk_score(user)
        sum == checked_add_1(st.verification_count)
        fail(e) == [err |-> e, state |-> st, events |-> <<>>]
    IN  IF kyc # Ok THEN fail(kyc)
        ELSE IF oracle.err # Ok THEN fail(oracle.err)
        ELSE IF action # "transfer"
                /\ ~RiskScoreAccepted(oracle.value, pol.max_risk_score)
             THEN fail(RiskScoreTooHigh)
        ELSE IF ~sum.some THEN fail(ProgramPanicked)
        ELSE [err |-> Ok,
              state |-> [st EXCEPT !.verification_count = sum.value],
              events |-> <<VerificationEvent(user, action, TRUE, oracle.value)>>]

\* verify_compliance emitting its event before the threshold test.
verify_compliance_emits_early(st, pol, att, user, action) ==
    LET kyc == KycCheck(pol, att, user)
        oracle == get_wallet_risk_score(user)
        sum == checked_add_1(st.verification_count)
        event == VerificationEvent(user, action, TRUE, oracle.value)
    IN  IF kyc # Ok THEN [err |-> kyc, state |-> st, events |-> <<>>]
        ELSE IF oracle.err # Ok
             THEN [err |-> oracle.err, state |-> st, events |-> <<>>]
        ELSE IF ~RiskScoreAccepted(oracle.value, pol.max_risk_score)
             THEN [err |-> RiskScoreTooHigh, state |-> st,
                   events |-> <<event>>]
        ELSE IF ~sum.some
             THEN [err |-> ProgramPanicked, state |-> st, events |-> <<>>]
        ELSE [err |-> Ok,
              state |-> [st EXCEPT !.verification_count = sum.value],
              events |-> <<event>>]

\* verify_compliance
verify_compliance(st, pol, att, user, action) ==
    LET kyc == KycCheck(pol, att, user)
        oracle == get_wallet_risk_score(user)
        sum == checked_add_1(st.verification_count)
        fail(e) == [err |-> e, state |-> st, events |-> <<>>]
    IN  IF kyc # Ok THEN fail(kyc)
        ELSE IF oracle.err # Ok THEN fail(oracle.err)
        ELSE IF ~RiskScoreAccepted(oracle.value, pol.max_risk_score)
             THEN fail(RiskScoreTooHigh)
        ELSE IF ~sum.some THEN fail(ProgramPanicked)
        ELSE [err |-> Ok,
              state |-> [st EXCEPT !.verification_count = sum.value],
              events |-> <<VerificationEvent(user, action, TRUE, oracle.value)>>]

\* The validation off by one.
ValidPolicyParameters_off_by_one(max_risk_score) == max_risk_score <= 11

\* The validation of set_policy's parameters.
ValidPolicyParameters(max_risk_score) == max_risk_score <= 10

\* set_policy writing require_kyc and the bitmap before it validates.
set_policy_late(pol, max_risk_score, require_kyc, allowed_jurisdictions) ==
    LET written == [pol EXCEPT !.require_kyc = require_kyc,
                               !.allowed_jurisdictions = allowed_jurisdictions]
    IN  IF ~ValidPolicyParameters(max_risk_score)
        THEN [err |-> InvalidPolicyParameters, policy |-> written]
        ELSE [err |-> Ok,
              policy |-> [written EXCEPT !.max_risk_score = max_risk_score]]

\* set_policy
set_policy(pol, max_risk_score, require_kyc, allowed_jurisdictions) ==
    IF ~ValidPolicyParameters(max_risk_score)
    THEN [err |-> InvalidPolicyParameters, policy |-> pol]
    ELSE [err |-> Ok,
          policy |-> [pol EXCEPT !.max_risk_score = max_risk_score,
                                 !.require_kyc = require_kyc,
                                 !.allowed_jurisdictions = allowed_jurisdictions]]

\* record_violation incrementing both counters.
record_violation_both(st, user, reason) ==
    LET sum == checked_add_1(st.violation_count)
        other == checked_add_1(st.verification_count)
    IN  IF ~sum.some \/ ~other.some
        THEN [err |-> ProgramPanicked, state |-> st, events |-> <<>>]
        ELSE [err |-> Ok,
              state |-> [st EXCEPT !.violation_count = sum.value,
                                   !.verification_count = other.value],
              events |-> <<ViolationEvent(user, reason)>>]

\* record_violation
record_violation(st, user, reason) ==
    LET sum == checked_add_1(st.violation_count)
    IN  IF ~sum.some
        THEN [err |-> ProgramPanicked, state |-> st, events |-> <<>>]
        ELSE [err |-> Ok,
              state |-> [st EXCEPT !.violation_count = sum.value],
              events |-> <<ViolationEvent(user, reason)>>]

---------------------------------------------------------------------------
(* Account validation: the error with which the instruction is rejected    *)
(* before its handler runs, or Ok.  The accounts are deserialized first    *)
(* (an account that was never created is rejected), then the constraints   *)
(* are checked in the order of the fields.                                 *)

\* Initialize: init of the state account.
InitializeAccounts(st) ==
    IF st.initialized THEN AccountAlreadyInUse ELSE Ok

\* InitializePolicy: init of the policy account.
InitializePolicyAccounts(pol) ==
    IF pol.initialized THEN AccountAlreadyInUse ELSE Ok

\* VerifyCompliance: state, policy and attestation are Account<..>; policy
\* carries the constraint policy.authority == state.authority.
VerifyComplianceAccounts(st, pol, att) ==
    IF ~st.initialized \/ ~pol.initialized \/ ~att.initialized
        THEN AccountNotInitialized
    ELSE IF pol.authority # st.authority THEN Unauthorized
    ELSE Ok

\* CreateKycAttestation: the attestation is created if needed; state is
\* Account<ComplianceState>.
CreateKycAttestationAccounts(st) ==
    IF ~st.initialized THEN AccountNotInitialized ELSE Ok

\* SetPolicy without the constraint.
SetPolicyAccounts_unconstrained(pol, authority) ==
    IF ~pol.initialized THEN AccountNotInitialized ELSE Ok

\* SetPolicy: constraint policy.authority == authority.key().
SetPolicyAccounts(pol, authority) ==
    IF ~pol.initialized THEN AccountNotInitialized
    ELSE IF pol.authority # authority THEN Unauthorized
    ELSE Ok

\* RecordViolation without the constraint.
RecordViolationAccounts_unconstrained(st, authority) ==
    IF ~st.initialized THEN AccountNotInitialized ELSE Ok

\* RecordViolation: constraint authority.key() == state.authority.
RecordViolationAccounts(st, authority) ==
    IF ~st.initialized THEN AccountNotInitialized
    ELSE IF authority # st.authority THEN Unauthorized
    ELSE Ok

---------------------------------------------------------------------------
(* The state machine *)

Call(op, err, args, events) ==
    [op |-> op, err |-> err, args |-> args, events |-> events]

Count(events, name) ==
    Cardinality({i \in DOMAIN events : events[i].name = name})

Emit(events) ==
    [verification |-> emitted.verification + Count(events, "VerificationEvent"),
     violation |-> emitted.violation + Count(events, "ViolationEvent")]

\* No account exists before the first instruction.
Init ==
    /\ state = NoState
    /\ policy = NoPolicy
    /\ attestations = [k \in Pubkeys |-> NoAttestation]
    /\ emitted = [verification |-> 0, violation |-> 0]
    /\ last = Call("none", Ok, <<>>, <<>>)

Initialize ==
    \E authority \in Deployers :
        LET e == InitializeAccounts(state)
        IN  /\ state' = IF e = Ok THEN initialize(authority) ELSE state
            /\ last' = Call("initialize", e, [authority |-> authority], <<>>)
            /\ UNCHANGED <<policy, attestations, emitted>>

InitializePolicy ==
    \E authority \in Pubkeys :
        LET e == InitializePolicyAccounts(policy)
        IN  /\ policy' = IF e = Ok THEN initialize_policy(authority) ELSE policy
            /\ last' = Call("initialize_policy", e,
                            [authority |-> authority], <<>>)
            /\ UNCHANGED <<state, attestations, emitted>>

\* create_kyc_attestation signed by one of `authorities` with a jurisdiction
\* among `jurisdictions`.  wallet_key is the key of the wallet account, and
\* wallet the instruction's argument.  The seeds constraint admits no
\* attestation account but AttestationPda(wallet_key).
CreateKycAttestationFrom(authorities, jurisdictions) ==
    \E authority \in authorities, wallet_key \in Pubkeys, wallet \in Pubkeys,
       is_verified \in BOOLEAN, jurisdiction \in jurisdictions :
        LET e == CreateKycAttestationAccounts(state)
            args == [authority |-> authority, wallet_key |-> wallet_key,
                     wallet |-> wallet, is_verified |-> is_verified,
                     jurisdiction |-> jurisdiction]
        IN  IF e # Ok
            THEN /\ last' = Call("create_kyc_attestation", e, args, <<>>)
                 /\ UNCHANGED <<state, policy, attestations, emitted>>
            ELSE /\ attestations' =
                       [attestations EXCEPT ![AttestationPda(wallet_key)] =
                           create_kyc_attestation(authority, wallet,
                                                  is_verified, jurisdiction)]
                 /\ last' = Call("create_kyc_attestation", Ok, args,
                                 <<KycAttestationEvent(wallet, is_verified,
                                                       jurisdiction)>>)
                 /\ UNCHANGED <<state, policy, emitted>>

CreateKycAttestation == CreateKycAttestationFrom(Issuers, Jurisdictions)

\* The result of the verify_compliance instruction in the current state:
\* account validation, then the handler.
VerifyComplianceCall(user_key, user, action) ==
    LET att == attestations[AttestationPda(user_key)]
        e == VerifyComplianceAccounts(state, policy, att)
    IN  IF e # Ok THEN [err |-> e, state |-> state, events |-> <<>>]
        ELSE verify_compliance(state, policy, att, user, action)

\* verify_compliance.  user_key is the key of the user account, and user the
\* instruction's argument.  The seeds constraint admits no attestation
\* account but AttestationPda(user_key).  The authority account is any
\* signer and is read by nothing.
VerifyCompliance ==
    \E user_key \in Pubkeys, user \in Pubkeys, action \in Strings :
        LET r == VerifyComplianceCall(user_key, user, action)
            args == [user_key |-> user_key, user |-> user, action |-> action]
        IN  /\ r.err = Ok => emitted.verification < MaxVerifications
            /\ state' = r.state
            /\ emitted' = Emit(r.events)
            /\ last' = Call("verify_compliance", r.err, args, r.events)
            /\ UNCHANGED <<policy, attestations>>

\* set_policy with a threshold among `scores` and a bitmap among `bitmaps`.
SetPolicyFrom(scores, bitmaps) ==
    \E authority \in Pubkeys, max_risk_score \in scores,
       require_kyc \in BOOLEAN, allowed_jurisdictions \in bitmaps :
        LET e == SetPolicyAccounts(policy, authority)
            r == IF e # Ok THEN [err |-> e, policy |-> policy]
                 ELSE set_policy(policy, max_risk_score, require_kyc,
                                 allowed_jurisdictions)
            args == [authority |-> authority, max_risk_score |-> max_risk_score,
                     require_kyc |-> require_kyc,
                     allowed_jurisdictions |-> allowed_jurisdictions]
        IN  /\ policy' = r.policy
            /\ last' = Call("set_policy", r.err, args, <<>>)
            /\ UNCHANGED <<state, attestations, emitted>>

SetPolicy == SetPolicyFrom(RiskScores, Bitmaps)

RecordViolation ==
    \E authority \in Pubkeys, user \in Pubkeys, reason \in Reasons :
        LET e == RecordViolationAccounts(state, authority)
            r == IF e # Ok THEN [err |-> e, state |-> state, events |-> <<>>]
                 ELSE record_violation(state, user, reason)
            args == [authority |-> authority, user |-> user, reason |-> reason]
        IN  /\ r.err = Ok => emitted.violation < MaxViolations
            /\ state' = r.state
            /\ emitted' = Emit(r.events)
            /\ last' = Call("record_violation", r.err, args, r.events)
            /\ UNCHANGED <<policy, attestations>>

Next ==
    \/ Initialize
    \/ InitializePolicy
    \/ CreateKycAttestation
    \/ VerifyCompliance
    \/ SetPolicy
    \/ RecordViolation

Spec == Init /\ [][Next]_vars

(* Policy administration alone, with every threshold up to MaxScoreOffered. *)
SetPolicyWide == SetPolicyFrom(0..MaxScoreOffered, PolicyBitmaps)

NextPolicy ==
    \/ InitializePolicy
    \/ SetPolicyWide

SpecPolicy == Init /\ [][NextPolicy]_vars

(* Evaluation alone.  The initial states are the states the instructions   *)
(* initialize, initialize_policy, set_policy and create_kyc_attestation    *)
(* leave: a deployment and a policy of one owner, the policy with any      *)
(* threshold of EvaluationScores, either require_kyc and any bitmap of     *)
(* WideBitmaps, and an attestation at the PDA of k1 with any wallet field, *)
(* either is_verified and any jurisdiction code of a u8.                   *)
InitEvaluation ==
    /\ state = initialize("k1")
    /\ \E max_risk_score \in EvaluationScores, require_kyc \in BOOLEAN,
          allowed_jurisdictions \in WideBitmaps :
            policy = set_policy(initialize_policy("k1"), max_risk_score,
                                require_kyc, allowed_jurisdictions).policy
    /\ \E wallet \in Pubkeys, is_verified \in BOOLEAN, jurisdiction \in U8 :
            attestations =
                [k \in Pubkeys |->
                    IF k = AttestationPda("k1")
                    THEN create_kyc_attestation("k2", wallet, is_verified,
                                                jurisdiction)
                    ELSE NoAttestation]
    /\ emitted = [verification |-> 0, violation |-> 0]
    /\ last = Call("none", Ok, <<>>, <<>>)

NextEvaluation == VerifyCompliance

SpecEvaluation == InitEvaluation /\ [][NextEvaluation]_vars

(* Attestation issuance alone, by every signer. *)
CreateKycAttestationWide ==
    CreateKycAttestationFrom(Pubkeys, IssuedJurisdictions)

NextAttestation ==
    \/ Initialize
    \/ CreateKycAttestationWide

SpecAttestation == Init /\ [][NextAttestation]_vars

(* The counters at the end of their range.  The initial states are the     *)
(* states a deployment is in after u64::MAX - 1 or u64::MAX successful     *)
(* verify_compliance and record_violation calls (events are counted from   *)
(* there), with a policy of the owner and an attestation at the PDA of k1. *)
InitOverflow ==
    /\ \E verification_count \in {U64NearMax, U64Max},
          violation_count \in {U64NearMax, U64Max} :
            state = [initialize("k1")
                        EXCEPT !.verification_count = verification_count,
                               !.violation_count = violation_count]
    /\ \E max_risk_score \in EvaluationScores, require_kyc \in BOOLEAN,
          allowed_jurisdictions \in Bitmaps :
            policy = set_policy(initialize_policy("k1"), max_risk_score,
                                require_kyc, allowed_jurisdictions).policy
    /\ \E wallet \in Pubkeys, is_verified \in BOOLEAN :
            attestations =
                [k \in Pubkeys |->
                    IF k = AttestationPda("k1")
                    THEN create_kyc_attestation("k2", wallet, is_verified, 1)
                    ELSE NoAttestation]
    /\ emitted = [verification |-> 0, violation |-> 0]
    /\ last = Call("none", Ok, <<>>, <<>>)

NextOverflow ==
    \/ VerifyCompliance
    \/ RecordViolation

SpecOverflow == InitOverflow /\ [][NextOverflow]_vars

---------------------------------------------------------------------------
(* Properties *)

\* The step is a call of `op` (a step that changes nothing is no call).
Called(op) == last'.op = op

\* C1: a verify_compliance call that fails, with whatever error, leaves the
\* ComplianceState account exactly as it was (both counters included) and
\* emits no event.
C1_FailedVerifyLeavesState ==
    [][(Called("verify_compliance") /\ last'.err # Ok)
         => /\ state' = state
            /\ emitted' = emitted
            /\ last'.events = <<>>]_vars

\* A verification has succeeded, and a later call has passed every check but
\* the threshold test.
C1_Witness ==
    /\ last.op = "verify_compliance"
    /\ last.err = RiskScoreTooHigh
    /\ U64Val(state.verification_count) = 1

\* C2: the counters never decrease; verification_count changes only in a
\* successful verify_compliance, by exactly +1 and with violation_count
\* unchanged; violation_count changes only in a successful record_violation,
\* by exactly +1 and with verification_count unchanged.
C2_CountersMonotone ==
    [][/\ U64Val(state'.verification_count) >= U64Val(state.verification_count)
       /\ U64Val(state'.violation_count) >= U64Val(state.violation_count)
       /\ state'.verification_count # state.verification_count
            => /\ Called("verify_compliance") /\ last'.err = Ok
               /\ U64Val(state'.verification_count)
                    = U64Val(state.verification_count) + 1
               /\ state'.violation_count = state.violation_count
       /\ state'.violation_count # state.violation_count
            => /\ Called("record_violation") /\ last'.err = Ok
               /\ U64Val(state'.violation_count)
                    = U64Val(state.violation_count) + 1
               /\ state'.verification_count = state.verification_count]_vars

\* Both counters have been incremented, the violation counter last.
C2_Witness ==
    /\ last.op = "record_violation" /\ last.err = Ok
    /\ U64Val(state.verification_count) = 1
    /\ U64Val(state.violation_count) = 1

\* Bit j of the 80-bit bitmap B (byte j/8, mask 1 << (j%8)) is set.
BitSet(B, j) == j < 80 /\ (B[(j \div 8) + 1] \div (2 ^ (j % 8))) % 2 = 1

\* The attestation account the last verify_compliance call resolved.
LastAttestation == attestations[AttestationPda(last.args.user_key)]

\* The last call was a verify_compliance that passed account validation:
\* the three accounts exist and the policy is the deployment owner's.
LastVerifyEvaluated ==
    /\ last.op = "verify_compliance"
    /\ state.initialized /\ policy.initialized /\ LastAttestation.initialized
    /\ policy.authority = state.authority

\* The KYC step of the last verify_compliance call does not fail, in the
\* words of the specification.
LastKycPasses ==
    \/ ~policy.require_kyc
    \/ /\ LastAttestation.initialized
       /\ LastAttestation.wallet = last.args.user
       /\ LastAttestation.is_verified
       /\ BitSet(policy.allowed_jurisdictions, LastAttestation.jurisdiction)

\* C3: with require_kyc and a verified attestation for the evaluated wallet,
\* the jurisdiction check passes iff bit j of the bitmap is set, and fails
\* with RestrictedJurisdiction for every j >= 80.
C3_JurisdictionBitTest ==
    (/\ LastVerifyEvaluated
     /\ policy.require_kyc
     /\ LastAttestation.wallet = last.args.user
     /\ LastAttestation.is_verified)
    => /\ last.err # RestrictedJurisdiction
            <=> BitSet(policy.allowed_jurisdictions,
                       LastAttestation.jurisdiction)
       /\ last.err \in {RestrictedJurisdiction, RiskScoreTooHigh, Ok}
       /\ LastAttestation.jurisdiction >= 80
            => last.err = RestrictedJurisdiction

\* Jurisdiction 79, the last bit of the bitmap and the only one set, passes.
C3_Witness ==
    /\ LastVerifyEvaluated
    /\ policy.require_kyc
    /\ policy.allowed_jurisdictions = BitmapOf(79)
    /\ LastAttestation.jurisdiction = 79
    /\ last.err = Ok

\* C4: whenever the KYC step does not fail (require_kyc is false, or the
\* attestation matches, is verified and its jurisdiction is allowed), a
\* verify_compliance under the owner's policy succeeds iff the oracle's
\* score is <= max_risk_score, and fails with RiskScoreTooHigh otherwise.
C4_SucceedsIffScoreWithinThreshold ==
    (/\ last.op = "verify_compliance"
     /\ state.initialized /\ policy.initialized
     /\ policy.authority = state.authority
     /\ LastKycPasses)
    => IF get_wallet_risk_score(last.args.user).value <= policy.max_risk_score
       THEN last.err = Ok
       ELSE last.err = RiskScoreTooHigh

\* C5 as stated: an attestation with is_verified = false makes the
\* evaluation fail with KycNotVerified, whatever the policy.
C5_UnverifiedAlwaysFails ==
    (LastVerifyEvaluated /\ ~LastAttestation.is_verified)
    => last.err = KycNotVerified

\* C5 amended: under a policy with require_kyc = true, an attestation with
\* is_verified = false makes an evaluation that passes account validation
\* fail with KycNotVerified, whatever the jurisdiction and the threshold.
C5_UnverifiedFailsUnderKyc ==
    (LastVerifyEvaluated /\ policy.require_kyc /\ ~LastAttestation.is_verified)
    => last.err = KycNotVerified

\* An unverified attestation for the evaluated wallet with an allowed
\* jurisdiction and an acceptable score is refused.
C5_Witness ==
    /\ LastVerifyEvaluated /\ policy.require_kyc
    /\ ~LastAttestation.is_verified
    /\ LastAttestation.wallet = last.args.user
    /\ BitSet(policy.allowed_jurisdictions, LastAttestation.jurisdiction)
    /\ get_wallet_risk_score(last.args.user).value <= policy.max_risk_score
    /\ last.err = KycNotVerified

\* The error the precedence of C6 prescribes for an evaluation of `user`
\* with attestation `att` under policy `pol`.
PrescribedError(pol, att, user) ==
    LET oracle == get_wallet_risk_score(user)
    IN  IF pol.require_kyc /\ (att.wallet # user \/ ~att.is_verified)
            THEN KycNotVerified
        ELSE IF pol.require_kyc
                /\ ~BitSet(pol.allowed_jurisdictions, att.jurisdiction)
            THEN RestrictedJurisdiction
        ELSE IF oracle.err # Ok THEN OracleDataFetchFailed
        ELSE IF oracle.value > pol.max_risk_score THEN RiskScoreTooHigh
        ELSE Ok

\* Attestations compared under a policy without require_kyc.
SomeAttestations ==
    {create_kyc_attestation("k2", w, v, j) :
        w \in Pubkeys, v \in BOOLEAN, j \in {1, U8Max}}

\* C6: an evaluation that passes account validation reports the one error
\* the precedence prescribes (KycNotVerified, then RestrictedJurisdiction,
\* then the oracle's failure, then RiskScoreTooHigh), and without
\* require_kyc the fields of the attestation do not influence the outcome.
C6_ErrorPrecedence ==
    /\ LastVerifyEvaluated
         => last.err = PrescribedError(policy, LastAttestation, last.args.user)
    /\ ~policy.require_kyc
         => \A a \in SomeAttestations, user \in Pubkeys, action \in Strings :
              verify_compliance(state, policy, a, user, action)
                = verify_compliance(state, policy, NoAttestation, user, action)

\* Unverified, jurisdiction not allowed and score above the threshold: the
\* call reports KycNotVerified.
C6_Witness ==
    /\ LastVerifyEvaluated /\ policy.require_kyc
    /\ ~LastAttestation.is_verified
    /\ ~BitSet(policy.allowed_jurisdictions, LastAttestation.jurisdiction)
    /\ get_wallet_risk_score(last.args.user).value > policy.max_risk_score
    /\ last.err = KycNotVerified

\* C7: under a policy with require_kyc = true, verify_compliance for a
\* wallet for which no attestation record was ever created fails with
\* KycNotVerified and leaves both counters unchanged.
C7_NoAttestationIsKycNotVerified ==
    [][(/\ Called("verify_compliance")
        /\ state.initialized /\ policy.initialized /\ policy.require_kyc
        /\ ~attestations[AttestationPda(last'.args.user_key)].initialized)
         => /\ last'.err = KycNotVerified
            /\ state'.verification_count = state.verification_count
            /\ state'.violation_count = state.violation_count]_vars

\* C8: max_risk_score of the policy record is at most 10 in every state.
C8_MaxRiskScoreAtMost10 == policy.max_risk_score <= 10

\* set_policy has accepted the threshold 10.
C8_Witness ==
    /\ last.op = "set_policy" /\ last.err = Ok
    /\ last.args.max_risk_score = 10
    /\ policy.max_risk_score = 10

PolicyFields(pol) ==
    <<pol.max_risk_score, pol.require_kyc, pol.allowed_jurisdictions>>

\* C9: set_policy by a caller other than policy.authority fails with
\* Unauthorized and changes nothing; the three fields of an existing policy
\* change only in a successful set_policy whose caller is policy.authority.
C9_OnlyAuthoritySetsPolicy ==
    [][/\ (/\ Called("set_policy") /\ policy.initialized
           /\ last'.args.authority # policy.authority)
            => /\ last'.err = Unauthorized
               /\ UNCHANGED <<state, policy, attestations, emitted>>
       /\ (policy.initialized /\ PolicyFields(policy') # PolicyFields(policy))
            => /\ Called("set_policy") /\ last'.err = Ok
               /\ last'.args.authority = policy.authority
               /\ policy'.authority = policy.authority]_vars

\* A caller other than the authority has been refused a policy that differs
\* from the stored one.
C9_Witness ==
    /\ last.op = "set_policy" /\ last.err = Unauthorized
    /\ last.args.authority # policy.authority
    /\ last.args.max_risk_score <= 10
    /\ last.args.max_risk_score # policy.max_risk_score

\* The policy set_policy is to leave on success.
Replaced(pol, args) ==
    [initialized |-> TRUE, authority |-> pol.authority,
     max_risk_score |-> args.max_risk_score,
     require_kyc |-> args.require_kyc,
     allowed_jurisdictions |-> args.allowed_jurisdictions]

\* C10: an authorized set_policy with a threshold <= 10 replaces the three
\* fields with the supplied values and keeps the authority; with a
\* threshold > 10 it fails with InvalidPolicyParameters and keeps all
\* fields; no set_policy call leaves a mix of old and new values.
C10_SetPolicyAllOrNothing ==
    [][Called("set_policy")
         => /\ (policy.initialized /\ last'.args.authority = policy.authority)
                 => IF last'.args.max_risk_score <= 10
                    THEN /\ last'.err = Ok
                         /\ policy' = Replaced(policy, last'.args)
                    ELSE /\ last'.err = InvalidPolicyParameters
                         /\ policy' = policy
            /\ last'.err # Ok => policy' = policy
            /\ policy' \in {policy, Replaced(policy, last'.args)}]_vars

\* Threshold 11 has been refused together with a require_kyc and a bitmap
\* that differ from the stored ones.
C10_Witness ==
    /\ last.op = "set_policy" /\ last.err = InvalidPolicyParameters
    /\ last.args.max_risk_score = 11
    /\ last.args.require_kyc # policy.require_kyc
    /\ last.args.allowed_jurisdictions # policy.allowed_jurisdictions

\* C11: record_violation by a caller other than state.authority fails with
\* Unauthorized, leaves both counters unchanged and emits no ViolationEvent;
\* by state.authority it increments violation_count by exactly 1 and emits
\* one ViolationEvent {wallet, reason}.
C11_RecordViolationAuthorized ==
    [][(Called("record_violation") /\ state.initialized)
         => IF last'.args.authority # state.authority
            THEN /\ last'.err = Unauthorized
                 /\ state' = state
                 /\ emitted' = emitted
                 /\ last'.events = <<>>
            ELSE /\ last'.err = Ok
                 /\ U64Val(state'.violation_count)
                      = U64Val(state.violation_count) + 1
                 /\ state'.verification_count = state.verification_count
                 /\ emitted'.violation = emitted.violation + 1
                 /\ last'.events = <<[name |-> "ViolationEvent",
                                      user |-> last'.args.user,
                                      reason |-> last'.args.reason]>>]_vars

\* A caller other than state.authority has been refused after a violation
\* was recorded.
C11_Witness ==
    /\ last.op = "record_violation" /\ last.err = Unauthorized
    /\ last.args.authority # state.authority
    /\ U64Val(state.violation_count) = 1

\* The last verify_compliance call passed account validation and every
\* check of the handler.
LastVerifyPassesChecks ==
    /\ LastVerifyEvaluated
    /\ PrescribedError(policy, LastAttestation, last.args.user) = Ok

\* C12: a counter at u64::MAX never wraps: no verify_compliance (resp.
\* record_violation) call succeeds, the counter keeps its value and no event
\* is emitted, and a call that passes every check fails with the panic of
\* the overflow, which is none of the program's policy errors.
C12_NoWrapAtMax ==
    [][/\ (Called("verify_compliance")
            /\ state.verification_count = U64Max)
            => /\ last'.err # Ok
               /\ last'.events = <<>> /\ emitted' = emitted
               /\ LastVerifyPassesChecks'
                    => /\ last'.err = ProgramPanicked
                       /\ last'.err \notin CompliFiError
       /\ (Called("record_violation") /\ state.violation_count = U64Max)
            => /\ last'.err # Ok
               /\ last'.events = <<>> /\ emitted' = emitted
               /\ last'.args.authority = state.authority
                    => /\ last'.err = ProgramPanicked
                       /\ last'.err \notin CompliFiError
       /\ state.verification_count = U64Max
            => state'.verification_count = U64Max
       /\ state.violation_count = U64Max
            => state'.violation_count = U64Max]_vars

\* A verify_compliance call that passes every check has met the counter at
\* u64::MAX.
C12_Witness ==
    /\ LastVerifyPassesChecks
    /\ state.verification_count = U64Max
    /\ last.err = ProgramPanicked

\* C14: a successful create_kyc_attestation leaves, in the one record of
\* the wallet, the is_verified, the jurisdiction and the caller of that
\* write, and leaves the record of every other wallet unchanged; records
\* change in no other step, and a record once created stays.
C14_AttestationUpsert ==
    [][/\ (Called("create_kyc_attestation") /\ last'.err = Ok)
            => LET w == last'.args.wallet_key
                   r == attestations'[w]
               IN  /\ r.initialized
                   /\ r.is_verified = last'.args.is_verified
                   /\ r.jurisdiction = last'.args.jurisdiction
                   /\ r.authority = last'.args.authority
                   /\ \A k \in Pubkeys \ {w} :
                        attestations'[k] = attestations[k]
       /\ attestations' # attestations
            => Called("create_kyc_attestation") /\ last'.err = Ok
       /\ DOMAIN attestations' = Pubkeys
       /\ \A k \in Pubkeys :
            attestations[k].initialized => attestations'[k].initialized]_vars

\* Both wallets have a record, written by different signers, and the record
\* of k1 was written last.
C14_Witness ==
    /\ last.op = "create_kyc_attestation" /\ last.err = Ok
    /\ last.args.wallet_key = "k1"
    /\ attestations["k1"].initialized /\ attestations["k2"].initialized
    /\ attestations["k1"].authority # attestations["k2"].authority
    /\ attestations["k1"].is_verified # attestations["k2"].is_verified

\* C15: from every state and for every wallet, two verify_compliance calls
\* that differ only in the action label end with the same result (Ok or the
\* same error) and the same counters, and their events differ only in the
\* action field.
C15_ActionLabelIrrelevant ==
    \A user_key \in Pubkeys, user \in Pubkeys, a1 \in Strings, a2 \in Strings :
        LET r1 == VerifyComplianceCall(user_key, user, a1)
            r2 == VerifyComplianceCall(user_key, user, a2)
        IN  /\ r1.err = r2.err
            /\ r1.state = r2.state
            /\ Len(r1.events) = Len(r2.events)
            /\ \A i \in DOMAIN r1.events :
                    /\ r1.events[i].action = a1
                    /\ [r1.events[i] EXCEPT !.action = a2] = r2.events[i]

\* A call labelled "swap" has succeeded, and the same evaluation labelled
\* "transfer" succeeds in the state it left.
C15_Witness ==
    /\ last.op = "verify_compliance" /\ last.err = Ok
    /\ last.args.action = "swap"
    /\ VerifyComplianceCall(last.args.user_key, last.args.user,
                            "transfer").err = Ok

\* C16: verification_count is the number of VerificationEvents emitted and
\* violation_count the number of ViolationEvents emitted; a failing call
\* emits no event; the event of a successful verify_compliance carries the
\* call's wallet and action, verified = true and the risk score the
\* decision used.
C16_CountersMatchEvents ==
    /\ U64Val(state.verification_count) = emitted.verification
    /\ U64Val(state.violation_count) = emitted.violation
    /\ last.err # Ok => last.events = <<>>
    /\ (last.op = "verify_compliance" /\ last.err = Ok)
         => /\ last.events
                 = <<[name |-> "VerificationEvent",
                      user |-> last.args.user,
                      action |-> last.args.action,
                      verified |-> TRUE,
                      risk_score |-> get_wallet_risk_score(last.args.user).value]>>
            /\ last.events[1].risk_score <= policy.max_risk_score
    /\ last.op \notin {"verify_compliance", "record_violation",
                        "create_kyc_attestation"}
         => last.events = <<>>

\* Two verifications and one violation have been counted and emitted, a
\* verification last.
C16_Witness ==
    /\ last.op = "verify_compliance" /\ last.err = Ok
    /\ emitted.verification = 2 /\ emitted.violation = 1
    /\ U64Val(state.verification_count) = 2

\* The policy and the attestation admit the wallet, in the words of C17.
Admits(pol, att, user) ==
    /\ pol.require_kyc
         => /\ att.wallet = user
            /\ att.is_verified
            /\ BitSet(pol.allowed_jurisdictions, att.jurisdiction)
    /\ get_wallet_risk_score(user).value <= pol.max_risk_score

\* C17: every step that increases verification_count is a verify_compliance
\* that the policy and the wallet's attestation as they stand at that step
\* admit, and that changes neither; while they do not admit the wallet,
\* every verify_compliance for it fails and leaves the state as it was.
C17_DecisionOnCurrentSnapshot ==
    [][/\ state'.verification_count # state.verification_count
            => /\ Called("verify_compliance")
               /\ Admits(policy, attestations[last'.args.user_key],
                         last'.args.user)
               /\ policy' = policy /\ attestations' = attestations
       /\ (/\ Called("verify_compliance")
           /\ ~Admits(policy, attestations[last'.args.user_key],
                      last'.args.user))
            => last'.err # Ok /\ state' = state]_vars

\* After a successful verification the wallet's attestation has been
\* re-issued with is_verified = false, and its next evaluation is refused.
C17_Witness ==
    /\ LastVerifyEvaluated /\ policy.require_kyc
    /\ last.err = KycNotVerified
    /\ U64Val(state.verification_count) = 1
    /\ LastAttestation.wallet = last.args.user
    /\ ~LastAttestation.is_verified
    /\ BitSet(policy.allowed_jurisdictions, LastAttestation.jurisdiction)
    /\ get_wallet_risk_score(last.args.user).value <= policy.max_risk_score

\* The policy holds the values of a freshly initialized one.
FreshPolicy ==
    /\ policy.initialized
    /\ policy.require_kyc
    /\ policy.max_risk_score = 3
    /\ policy.allowed_jurisdictions = ZeroBitmap

\* C18: initialize_policy leaves require_kyc = true, max_risk_score = 3 and
\* no jurisdiction allowed; while the policy holds these values (that is,
\* until a set_policy succeeds) no verify_compliance succeeds and
\* verification_count does not change; an evaluation under the owner's
\* policy of a wallet with a matching verified attestation fails with
\* RestrictedJurisdiction.
C18_FreshPolicyAdmitsNobody ==
    [][/\ (Called("initialize_policy") /\ last'.err = Ok) => FreshPolicy'
       /\ (FreshPolicy /\ Called("verify_compliance"))
            => /\ last'.err # Ok
               /\ state' = state
               /\ (/\ state.initialized
                   /\ policy.authority = state.authority
                   /\ attestations[last'.args.user_key].initialized
                   /\ attestations[last'.args.user_key].wallet
                        = last'.args.user
                   /\ attestations[last'.args.user_key].is_verified)
                    => last'.err = RestrictedJurisdiction
       /\ (FreshPolicy /\ ~FreshPolicy')
            => Called("set_policy") /\ last'.err = Ok
       /\ FreshPolicy
            => state'.verification_count = state.verification_count]_vars

\* Under the freshly initialized policy a wallet with a matching verified
\* attestation has been refused for its jurisdiction.
C18_Witness ==
    /\ FreshPolicy /\ LastVerifyEvaluated
    /\ LastAttestation.wallet = last.args.user
    /\ LastAttestation.is_verified
    /\ last.err = RestrictedJurisdiction
    /\ state.verification_count = U64Zero

\* C19: the attestation record stored under the key of wallet w has its
\* wallet field equal to w, and a successful verify_compliance under
\* require_kyc for user u read the record stored under u's key.
C19_AttestationKeyedByItsWallet ==
    /\ \A k \in Pubkeys :
         attestations[k].initialized => attestations[k].wallet = k
    /\ (/\ last.op = "verify_compliance" /\ last.err = Ok
        /\ policy.require_kyc)
         => /\ last.args.user_key = last.args.user
            /\ attestations[last.args.user].wallet = last.args.user

\* C20: a verify_compliance under a policy whose authority differs from
\* state.authority fails with Unauthorized and leaves both counters
\* unchanged; verification_count increases only under a policy whose
\* authority is state.authority; neither authority changes once its
\* account is initialized.
C20_ForeignPolicyIsUnauthorized ==
    [][/\ (/\ Called("verify_compliance")
           /\ state.initialized /\ policy.initialized
           /\ policy.authority # state.authority)
            => /\ last'.err = Unauthorized
               /\ state'.verification_count = state.verification_count
               /\ state'.violation_count = state.violation_count
       /\ state'.verification_count # state.verification_count
            => policy.authority = state.authority
       /\ state.initialized => state'.authority = state.authority
       /\ policy.initialized => policy'.authority = policy.authority]_vars

\* The part of C20 that does not name the error: a verify_compliance under
\* another authority's policy fails and changes no counter, increments
\* happen under the owner's policy, and the authorities are never changed.
C20_ForeignPolicyIsRefused ==
    [][/\ (/\ Called("verify_compliance")
           /\ state.initialized /\ policy.initialized
           /\ policy.authority # state.authority)
            => /\ last'.err \in {Unauthorized, AccountNotInitialized}
               /\ state' = state
       /\ state'.verification_count # state.verification_count
            => policy.authority = state.authority
       /\ state.initialized => state'.authority = state.authority
       /\ policy.initialized => policy'.authority = policy.authority]_vars

====
